---- MODULE Spec2Model ----
(***************************************************************************)
(* Model of CThreadPoolEx::ThreadProc (src/CThreadPoolEx.hpp), the worker  *)
(* thread routine of the extended ATL thread pool, together with the       *)
(* LambdaWorker executor and the pool operations that drive it.            *)
(*                                                                         *)
(* The request queue is the I/O completion port m_hRequestQueue: packets   *)
(* posted to it are delivered in FIFO order, each to exactly one caller of *)
(* GetQueuedCompletionStatus.  The pool operations Start, Submit and       *)
(* Shutdown live in the ATL base class CThreadPool, which is not part of   *)
(* the repository; they are modelled from the specification (section 4.5). *)
(***************************************************************************)
EXTENDS Integers, Sequences, FiniteSets, TLC

\* ------------------------------------------------------------------ bounds
NThreads == 2
MaxItems == 2
MaxShutdowns == 1

\* --------------------------------------------------------------- constants
\* pOverlapped value that marks a shutdown packet (compared at line 328).
ATLS_POOL_SHUTDOWN == -1

Threads == 1..NThreads
Items == 1..MaxItems

\* A completion packet: dwCompletionKey and pOverlapped.
WorkEntry(i) == [key |-> i, ov |-> 0]
SentinelEntry == [key |-> 0, ov |-> ATLS_POOL_SHUTDOWN]
NoEntry == [key |-> 0, ov |-> 0]

VARIABLES
    pc,                 \* position of each worker thread in ThreadProc
    cur,                \* dwCompletionKey / pOverlapped of each thread
    queue,              \* packets pending on m_hRequestQueue
    m_bShutdown,        \* the shutdown flag
    readyEvt,           \* per thread: SetEvent(m_hThreadEvent) calls at line 317
    doneEvt,            \* per thread: SetEvent(m_hThreadEvent) calls at line 353
    m_dwThreadEventId,  \* id recorded at line 352
    exitCode,           \* per thread: <<>> while running, <<status>> once returned
    calls,              \* per thread: the Initialize / Terminate calls made so far, in order
    cause,              \* per thread: why the thread left (or never entered) its loop
    noops,              \* shutdown packets consumed while the flag was clear
    executed,           \* per item: number of Execute calls that received it
    invoked,            \* per item: number of completed request->Invoke() calls
    heap,               \* per item: allocation state of the request object
    submitted,          \* items handed to Submit so far
    mgr,                \* position of the pool manager
    size,               \* number of threads Start was asked for
    created,            \* number of threads Start has created
    startResult,        \* what Start returned
    toPost,             \* sentinels Shutdown still has to enqueue
    shutdowns,          \* number of Shutdown calls (settings of the flag)
    closed              \* threads whose handle the pool manager has closed

vars == <<pc, cur, queue, m_bShutdown, readyEvt, doneEvt, m_dwThreadEventId,
          exitCode, calls, cause, noops, executed, invoked, heap, submitted,
          mgr, size, created, startResult, toPost, shutdowns, closed>>

thrVars == <<pc, cur, m_bShutdown, readyEvt, doneEvt, m_dwThreadEventId,
             exitCode, calls, cause, noops, executed, invoked>>
mgrVars == <<mgr, size, created, startResult, toPost, shutdowns, closed>>

Init ==
    /\ pc = [t \in Threads |-> "notcreated"]
    /\ cur = [t \in Threads |-> NoEntry]
    /\ queue = <<>>
    /\ m_bShutdown = FALSE
    /\ readyEvt = [t \in Threads |-> 0]
    /\ doneEvt = [t \in Threads |-> 0]
    /\ m_dwThreadEventId = 0
    /\ exitCode = [t \in Threads |-> <<>>]
    /\ calls = [t \in Threads |-> <<>>]
    /\ cause = [t \in Threads |-> "none"]
    /\ noops = 0
    /\ executed = [i \in Items |-> 0]
    /\ invoked = [i \in Items |-> 0]
    /\ heap = [i \in Items |-> "unallocated"]
    /\ submitted = {}
    /\ mgr = "starting"
    /\ size \in 1..NThreads
    /\ created = 0
    /\ startResult = FALSE
    /\ toPost = 0
    /\ shutdowns = 0
    /\ closed = {}

\* ------------------------------------------------------------ ThreadProc

\* Variant of ThreadInitialize that lacks the early return: a failed Initialize
\* falls through to the readiness signal and the loop.
ThreadInitialize_NoReturn(t, ok) ==
    /\ pc[t] = "init"
    /\ calls' = [calls EXCEPT ![t] = Append(@, "Initialize")]
    /\ pc' = [pc EXCEPT ![t] = "ready"]
    /\ cause' = [cause EXCEPT ![t] = IF ok THEN @ ELSE "initfail"]
    /\ UNCHANGED <<cur, queue, m_bShutdown, readyEvt, doneEvt, m_dwThreadEventId,
                   exitCode, noops, executed, invoked, heap, submitted>>
    /\ UNCHANGED mgrVars

\* Variant of ThreadInitialize that leaves through Terminate when Initialize
\* fails (break instead of return 1).
ThreadInitialize_Break(t, ok) ==
    /\ pc[t] = "init"
    /\ calls' = [calls EXCEPT ![t] = Append(@, "Initialize")]
    /\ pc' = [pc EXCEPT ![t] = IF ok THEN "ready" ELSE "term"]
    /\ cause' = [cause EXCEPT ![t] = IF ok THEN @ ELSE "initfail"]
    /\ UNCHANGED <<cur, queue, m_bShutdown, readyEvt, doneEvt, m_dwThreadEventId,
                   exitCode, noops, executed, invoked, heap, submitted>>
    /\ UNCHANGED mgrVars

\* Lines 310-315: construct theWorker, call Initialize; on FALSE return 1.
ThreadInitialize(t, ok) ==
    /\ pc[t] = "init"
    /\ calls' = [calls EXCEPT ![t] = Append(@, "Initialize")]
    /\ IF ok
         THEN /\ pc' = [pc EXCEPT ![t] = "ready"]
              /\ UNCHANGED <<exitCode, cause>>
         ELSE /\ pc' = [pc EXCEPT ![t] = "exited"]
              /\ exitCode' = [exitCode EXCEPT ![t] = <<1>>]
              /\ cause' = [cause EXCEPT ![t] = "initfail"]
    /\ UNCHANGED <<cur, queue, m_bShutdown, readyEvt, doneEvt, m_dwThreadEventId,
                   noops, executed, invoked, heap, submitted>>
    /\ UNCHANGED mgrVars

\* Variant of ThreadSignalReady that enters the loop without SetEvent.
ThreadSignalReady_NoSignal(t) ==
    /\ pc[t] = "ready"
    /\ pc' = [pc EXCEPT ![t] = "wait"]
    /\ UNCHANGED <<cur, queue, m_bShutdown, readyEvt, doneEvt, m_dwThreadEventId,
                   exitCode, calls, cause, noops, executed, invoked, heap, submitted>>
    /\ UNCHANGED mgrVars

\* Line 317: SetEvent(m_hThreadEvent), then enter the loop.
ThreadSignalReady(t) ==
    /\ pc[t] = "ready"
    /\ readyEvt' = [readyEvt EXCEPT ![t] = @ + 1]
    /\ pc' = [pc EXCEPT ![t] = "wait"]
    /\ UNCHANGED <<cur, queue, m_bShutdown, doneEvt, m_dwThreadEventId, exitCode,
                   calls, cause, noops, executed, invoked, heap, submitted>>
    /\ UNCHANGED mgrVars

\* Variant of ThreadDequeue that reads the oldest packet without removing it.
ThreadDequeue_Peek(t) ==
    /\ pc[t] = "wait"
    /\ queue # <<>>
    /\ cur' = [cur EXCEPT ![t] = Head(queue)]
    /\ pc' = [pc EXCEPT ![t] = "got"]
    /\ UNCHANGED <<queue, m_bShutdown, readyEvt, doneEvt, m_dwThreadEventId, exitCode,
                   calls, cause, noops, executed, invoked, heap, submitted>>
    /\ UNCHANGED mgrVars

\* Line 322, bStatus TRUE: the oldest pending packet is handed to this thread.
ThreadDequeue(t) ==
    /\ pc[t] = "wait"
    /\ queue # <<>>
    /\ cur' = [cur EXCEPT ![t] = Head(queue)]
    /\ queue' = Tail(queue)
    /\ pc' = [pc EXCEPT ![t] = "got"]
    /\ UNCHANGED <<m_bShutdown, readyEvt, doneEvt, m_dwThreadEventId, exitCode,
                   calls, cause, noops, executed, invoked, heap, submitted>>
    /\ UNCHANGED mgrVars

\* Variant of ThreadWaitFail that returns straight away on a failed wait,
\* without running Terminate.
ThreadWaitFail_NoTerminate(t) ==
    /\ pc[t] = "wait"
    /\ pc' = [pc EXCEPT ![t] = "record"]
    /\ cause' = [cause EXCEPT ![t] = "waitfail"]
    /\ UNCHANGED <<cur, queue, m_bShutdown, readyEvt, doneEvt, m_dwThreadEventId,
                   exitCode, calls, noops, executed, invoked, heap, submitted>>
    /\ UNCHANGED mgrVars

\* Variant of ThreadWaitFail in which the shutdown check comes before the
\* check of bStatus: the failed wait goes through the exchange of line 330 on
\* its way out and clears the flag.
ThreadWaitFail_SentinelFirst(t) ==
    /\ pc[t] = "wait"
    /\ m_bShutdown' = FALSE
    /\ pc' = [pc EXCEPT ![t] = "term"]
    /\ cause' = [cause EXCEPT ![t] = "waitfail"]
    /\ UNCHANGED <<cur, queue, readyEvt, doneEvt, m_dwThreadEventId,
                   exitCode, calls, noops, executed, invoked, heap, submitted>>
    /\ UNCHANGED mgrVars

\* Lines 322-326, bStatus FALSE: no packet is delivered, break out of the loop.
ThreadWaitFail(t) ==
    /\ pc[t] = "wait"
    /\ pc' = [pc EXCEPT ![t] = "term"]
    /\ cause' = [cause EXCEPT ![t] = "waitfail"]
    /\ UNCHANGED <<cur, queue, m_bShutdown, readyEvt, doneEvt, m_dwThreadEventId,
                   exitCode, calls, noops, executed, invoked, heap, submitted>>
    /\ UNCHANGED mgrVars

\* Variant of ThreadSentinel that tests the flag without clearing it.
ThreadSentinel_NoClear(t) ==
    /\ pc[t] = "got"
    /\ cur[t].ov = ATLS_POOL_SHUTDOWN
    /\ IF m_bShutdown
         THEN /\ pc' = [pc EXCEPT ![t] = "term"]
              /\ cause' = [cause EXCEPT ![t] = "shutdown"]
              /\ UNCHANGED noops
         ELSE /\ pc' = [pc EXCEPT ![t] = "wait"]
              /\ noops' = noops + 1
              /\ UNCHANGED cause
    /\ cur' = [cur EXCEPT ![t] = NoEntry]
    /\ UNCHANGED <<queue, m_bShutdown, readyEvt, doneEvt, m_dwThreadEventId, exitCode,
                   calls, executed, invoked, heap, submitted>>
    /\ UNCHANGED mgrVars

\* Variant of ThreadSentinel with the test of bResult inverted: it breaks when
\* the flag was clear and continues when it was set.
ThreadSentinel_Inverted(t) ==
    /\ pc[t] = "got"
    /\ cur[t].ov = ATLS_POOL_SHUTDOWN
    /\ m_bShutdown' = FALSE
    /\ IF ~m_bShutdown
         THEN /\ pc' = [pc EXCEPT ![t] = "term"]
              /\ cause' = [cause EXCEPT ![t] = "shutdown"]
              /\ UNCHANGED noops
         ELSE /\ pc' = [pc EXCEPT ![t] = "wait"]
              /\ noops' = noops + 1
              /\ UNCHANGED cause
    /\ cur' = [cur EXCEPT ![t] = NoEntry]
    /\ UNCHANGED <<queue, readyEvt, doneEvt, m_dwThreadEventId, exitCode, calls,
                   executed, invoked, heap, submitted>>
    /\ UNCHANGED mgrVars

\* Variant of ThreadSentinel that breaks on every shutdown packet, whatever
\* the old value of the flag.
ThreadSentinel_AlwaysBreak(t) ==
    /\ pc[t] = "got"
    /\ cur[t].ov = ATLS_POOL_SHUTDOWN
    /\ m_bShutdown' = FALSE
    /\ pc' = [pc EXCEPT ![t] = "term"]
    /\ cause' = [cause EXCEPT ![t] = "shutdown"]
    /\ cur' = [cur EXCEPT ![t] = NoEntry]
    /\ UNCHANGED <<queue, readyEvt, doneEvt, m_dwThreadEventId, exitCode, calls,
                   noops, executed, invoked, heap, submitted>>
    /\ UNCHANGED mgrVars

\* Variant of ThreadSentinel that posts the shutdown packet back to the queue
\* when it found the flag clear (the first NThreads times, to keep the queue
\* finite).
ThreadSentinel_Requeue(t) ==
    /\ pc[t] = "got"
    /\ cur[t].ov = ATLS_POOL_SHUTDOWN
    /\ m_bShutdown' = FALSE
    /\ IF m_bShutdown
         THEN /\ pc' = [pc EXCEPT ![t] = "term"]
              /\ cause' = [cause EXCEPT ![t] = "shutdown"]
              /\ UNCHANGED <<noops, queue>>
         ELSE /\ pc' = [pc EXCEPT ![t] = "wait"]
              /\ noops' = noops + 1
              /\ queue' = IF noops < NThreads THEN Append(queue, cur[t]) ELSE queue
              /\ UNCHANGED cause
    /\ cur' = [cur EXCEPT ![t] = NoEntry]
    /\ UNCHANGED <<readyEvt, doneEvt, m_dwThreadEventId, exitCode, calls,
                   executed, invoked, heap, submitted>>
    /\ UNCHANGED mgrVars

\* Lines 328-335: a shutdown packet; InterlockedExchange(&m_bShutdown, FALSE)
\* and break when the old value was set, otherwise continue the loop.
ThreadSentinel(t) ==
    /\ pc[t] = "got"
    /\ cur[t].ov = ATLS_POOL_SHUTDOWN
    /\ m_bShutdown' = FALSE
    /\ IF m_bShutdown
         THEN /\ pc' = [pc EXCEPT ![t] = "term"]
              /\ cause' = [cause EXCEPT ![t] = "shutdown"]
              /\ UNCHANGED noops
         ELSE /\ pc' = [pc EXCEPT ![t] = "wait"]
              /\ noops' = noops + 1
              /\ UNCHANGED cause
    /\ cur' = [cur EXCEPT ![t] = NoEntry]
    /\ UNCHANGED <<queue, readyEvt, doneEvt, m_dwThreadEventId, exitCode, calls,
                   executed, invoked, heap, submitted>>
    /\ UNCHANGED mgrVars

\* Variant of ThreadExecute that looks at the shutdown flag first: while the
\* flag is set an ordinary packet is not executed, the thread takes the flag
\* and leaves its loop.
ThreadExecute_HonoursFlag(t) ==
    /\ pc[t] = "got"
    /\ cur[t].ov # ATLS_POOL_SHUTDOWN
    /\ IF m_bShutdown
         THEN /\ m_bShutdown' = FALSE
              /\ cur' = [cur EXCEPT ![t] = NoEntry]
              /\ pc' = [pc EXCEPT ![t] = "term"]
              /\ cause' = [cause EXCEPT ![t] = "shutdown"]
              /\ UNCHANGED executed
         ELSE /\ executed' = [executed EXCEPT ![cur[t].key] = @ + 1]
              /\ pc' = [pc EXCEPT ![t] = "exec"]
              /\ UNCHANGED <<cur, m_bShutdown, cause>>
    /\ UNCHANGED <<queue, readyEvt, doneEvt, m_dwThreadEventId,
                   exitCode, calls, noops, invoked, heap, submitted>>
    /\ UNCHANGED mgrVars

\* Variant of ThreadExecute that discards the ordinary packet and goes back
\* to the wait without calling Execute.
ThreadExecute_Drop(t) ==
    /\ pc[t] = "got"
    /\ cur[t].ov # ATLS_POOL_SHUTDOWN
    /\ cur' = [cur EXCEPT ![t] = NoEntry]
    /\ pc' = [pc EXCEPT ![t] = "wait"]
    /\ UNCHANGED <<queue, m_bShutdown, readyEvt, doneEvt, m_dwThreadEventId,
                   exitCode, calls, cause, noops, executed, invoked, heap, submitted>>
    /\ UNCHANGED mgrVars

\* Lines 336-345: an ordinary packet; theWorker.Execute(request, ...) is called.
ThreadExecute(t) ==
    /\ pc[t] = "got"
    /\ cur[t].ov # ATLS_POOL_SHUTDOWN
    /\ executed' = [executed EXCEPT ![cur[t].key] = @ + 1]
    /\ pc' = [pc EXCEPT ![t] = "exec"]
    /\ UNCHANGED <<cur, queue, m_bShutdown, readyEvt, doneEvt, m_dwThreadEventId,
                   exitCode, calls, cause, noops, invoked, heap, submitted>>
    /\ UNCHANGED mgrVars

\* Variant of LambdaExecute after which the thread leaves its loop instead of
\* going back to wait for the next packet.
LambdaExecute_Break(t) ==
    /\ pc[t] = "exec"
    /\ invoked' = [invoked EXCEPT ![cur[t].key] = @ + 1]
    /\ cur' = [cur EXCEPT ![t] = NoEntry]
    /\ pc' = [pc EXCEPT ![t] = "term"]
    /\ UNCHANGED <<queue, m_bShutdown, readyEvt, doneEvt, m_dwThreadEventId,
                   exitCode, calls, cause, noops, executed, heap, submitted>>
    /\ UNCHANGED mgrVars

\* Lines 170-173: CThreadLambdaExecutorTraits::Execute runs request->Invoke()
\* and returns; the request object is neither deleted nor queued again.
LambdaExecute(t) ==
    /\ pc[t] = "exec"
    /\ invoked' = [invoked EXCEPT ![cur[t].key] = @ + 1]
    /\ cur' = [cur EXCEPT ![t] = NoEntry]
    /\ pc' = [pc EXCEPT ![t] = "wait"]
    /\ UNCHANGED <<queue, m_bShutdown, readyEvt, doneEvt, m_dwThreadEventId,
                   exitCode, calls, cause, noops, executed, heap, submitted>>
    /\ UNCHANGED mgrVars

\* Variant of ThreadTerminate with the completion signal moved inside the
\* scope of theWorker, ahead of Terminate: the thread first signals, then
\* calls Terminate and returns.
ThreadTerminate_SignalFirst(t) ==
    /\ pc[t] = "term"
    /\ IF doneEvt[t] = 0
         THEN /\ doneEvt' = [doneEvt EXCEPT ![t] = @ + 1]
              /\ UNCHANGED <<pc, calls>>
         ELSE /\ calls' = [calls EXCEPT ![t] = Append(@, "Terminate")]
              /\ pc' = [pc EXCEPT ![t] = "return"]
              /\ UNCHANGED doneEvt
    /\ UNCHANGED <<cur, queue, m_bShutdown, readyEvt, m_dwThreadEventId,
                   exitCode, cause, noops, executed, invoked, heap, submitted>>
    /\ UNCHANGED mgrVars

\* Lines 349-350: theWorker.Terminate(...), then theWorker goes out of scope.
ThreadTerminate(t) ==
    /\ pc[t] = "term"
    /\ calls' = [calls EXCEPT ![t] = Append(@, "Terminate")]
    /\ pc' = [pc EXCEPT ![t] = "record"]
    /\ UNCHANGED <<cur, queue, m_bShutdown, readyEvt, doneEvt, m_dwThreadEventId,
                   exitCode, cause, noops, executed, invoked, heap, submitted>>
    /\ UNCHANGED mgrVars

\* Line 352: m_dwThreadEventId = GetCurrentThreadId().
ThreadRecordId(t) ==
    /\ pc[t] = "record"
    /\ m_dwThreadEventId' = t
    /\ pc' = [pc EXCEPT ![t] = "signal"]
    /\ UNCHANGED <<cur, queue, m_bShutdown, readyEvt, doneEvt, exitCode, calls,
                   cause, noops, executed, invoked, heap, submitted>>
    /\ UNCHANGED mgrVars

\* Line 353: SetEvent(m_hThreadEvent).
ThreadSignalDone(t) ==
    /\ pc[t] = "signal"
    /\ doneEvt' = [doneEvt EXCEPT ![t] = @ + 1]
    /\ pc' = [pc EXCEPT ![t] = "return"]
    /\ UNCHANGED <<cur, queue, m_bShutdown, readyEvt, m_dwThreadEventId, exitCode,
                   calls, cause, noops, executed, invoked, heap, submitted>>
    /\ UNCHANGED mgrVars

\* Line 355: return 0.
ThreadReturn(t) ==
    /\ pc[t] = "return"
    /\ exitCode' = [exitCode EXCEPT ![t] = <<0>>]
    /\ pc' = [pc EXCEPT ![t] = "exited"]
    /\ UNCHANGED <<cur, queue, m_bShutdown, readyEvt, doneEvt, m_dwThreadEventId,
                   calls, cause, noops, executed, invoked, heap, submitted>>
    /\ UNCHANGED mgrVars

\* ---------------------------------------------------------- Pool Manager

\* The thread Start is currently waiting for has signalled Ready or has
\* failed Initialize.
StartObserved(t) ==
    \/ readyEvt[t] > 0
    \/ pc[t] = "exited" /\ cause[t] = "initfail"

\* Start: create the next thread once the previous one has been observed.
StartCreateThread ==
    /\ mgr = "starting"
    /\ created < size
    /\ created > 0 => StartObserved(created)
    /\ created' = created + 1
    /\ pc' = [pc EXCEPT ![created + 1] = "init"]
    /\ UNCHANGED <<cur, queue, m_bShutdown, readyEvt, doneEvt, m_dwThreadEventId,
                   exitCode, calls, cause, noops, executed, invoked, heap, submitted,
                   mgr, size, startResult, toPost, shutdowns, closed>>

\* Start returns: success only if every thread signalled Ready.
StartReturn ==
    /\ mgr = "starting"
    /\ created = size
    /\ StartObserved(created)
    /\ startResult' = (\A t \in 1..size : readyEvt[t] > 0)
    /\ mgr' = "running"
    /\ UNCHANGED <<queue, heap, submitted, size, created, toPost, shutdowns, closed>>
    /\ UNCHANGED thrVars

\* Submit(item): the caller allocates a request and posts it with a NULL
\* pOverlapped.
Submit(i) ==
    /\ i \notin submitted
    /\ i = Cardinality(submitted) + 1
    /\ submitted' = submitted \cup {i}
    /\ heap' = [heap EXCEPT ![i] = "live"]
    /\ queue' = Append(queue, WorkEntry(i))
    /\ UNCHANGED thrVars
    /\ UNCHANGED mgrVars

\* Shutdown(size), first half: set the shutdown flag; one shutdown packet per
\* thread of the pool is to follow.
ShutdownSetFlag ==
    /\ mgr = "running"
    /\ toPost = 0
    /\ shutdowns < MaxShutdowns
    /\ m_bShutdown' = TRUE
    /\ toPost' = size
    /\ shutdowns' = shutdowns + 1
    /\ UNCHANGED <<pc, cur, queue, readyEvt, doneEvt, m_dwThreadEventId, exitCode,
                   calls, cause, noops, executed, invoked, heap, submitted,
                   mgr, size, created, startResult, closed>>

\* Shutdown(size), second half: enqueue the shutdown packets one by one.
ShutdownPost ==
    /\ toPost > 0
    /\ queue' = Append(queue, SentinelEntry)
    /\ toPost' = toPost - 1
    /\ UNCHANGED <<heap, submitted, mgr, size, created, startResult, shutdowns, closed>>
    /\ UNCHANGED thrVars

\* Shutdown(size), waiting: once a thread's completion event has fired, the
\* handle of that thread is closed.
ShutdownCloseHandle(t) ==
    /\ shutdowns > 0
    /\ doneEvt[t] > 0
    /\ t \notin closed
    /\ closed' = closed \cup {t}
    /\ UNCHANGED <<queue, heap, submitted, mgr, size, created, startResult, toPost,
                   shutdowns>>
    /\ UNCHANGED thrVars

\* ------------------------------------------------------------ specification

ThreadStep(t) ==
    \/ ThreadSignalReady(t)
    \/ ThreadDequeue(t)
    \/ ThreadSentinel(t)
    \/ ThreadExecute(t)
    \/ LambdaExecute(t)
    \/ ThreadTerminate(t)
    \/ ThreadRecordId(t)
    \/ ThreadSignalDone(t)
    \/ ThreadReturn(t)

Next ==
    \/ \E t \in Threads : \E ok \in BOOLEAN : ThreadInitialize(t, ok)
    \/ \E t \in Threads : ThreadStep(t)
    \/ \E t \in Threads : ThreadWaitFail(t)
    \/ StartCreateThread
    \/ StartReturn
    \/ \E i \in Items : Submit(i)
    \/ ShutdownSetFlag
    \/ ShutdownPost

Spec == Init /\ [][Next]_vars

\* Fairness of the scheduler: a thread that can take a step of ThreadProc
\* eventually takes it (a failed wait is an event of the platform, not a step
\* the scheduler owes).
ThreadFairness ==
    \A t \in Threads :
        /\ WF_vars(\E ok \in BOOLEAN : ThreadInitialize(t, ok))
        /\ WF_vars(ThreadStep(t))

\* Start and Shutdown, once called, run to their end.
ManagerFairness ==
    /\ WF_vars(StartCreateThread)
    /\ WF_vars(StartReturn)
    /\ WF_vars(ShutdownPost)

\* The pool from the call of Start up to the first Shutdown (no shutdown
\* packet is ever on the queue), under a fair scheduler.
StartNext ==
    \/ \E t \in Threads : \E ok \in BOOLEAN : ThreadInitialize(t, ok)
    \/ \E t \in Threads :
          \/ ThreadSignalReady(t)
          \/ ThreadDequeue(t)
          \/ ThreadExecute(t)
          \/ LambdaExecute(t)
          \/ ThreadTerminate(t)
          \/ ThreadRecordId(t)
          \/ ThreadSignalDone(t)
          \/ ThreadReturn(t)
    \/ \E t \in Threads : ThreadWaitFail(t)
    \/ StartCreateThread
    \/ StartReturn
    \/ \E i \in Items : Submit(i)

StartSpec == Init /\ [][StartNext]_vars /\ ThreadFairness /\ ManagerFairness

\* One Shutdown(size) on a pool whose threads all initialized, no Submit after
\* the Shutdown call and no failing wait.
ShutdownNext ==
    \/ \E t \in Threads : ThreadInitialize(t, TRUE)
    \/ \E t \in Threads : ThreadStep(t)
    \/ StartCreateThread
    \/ StartReturn
    \/ \E i \in Items : shutdowns = 0 /\ Submit(i)
    \/ shutdowns = 0 /\ ShutdownSetFlag
    \/ ShutdownPost

ShutdownSpec ==
    /\ Init
    /\ [][ShutdownNext]_vars
    /\ \A t \in Threads : WF_vars(ThreadInitialize(t, TRUE)) /\ WF_vars(ThreadStep(t))
    /\ ManagerFairness

\* Scenario 3 of the specification: a pool of one thread; Submit(item 1),
\* then Shutdown(1), then Submit(item 2) racing the Shutdown call: after the
\* flag is set and before the worker has dequeued the shutdown packet.  The
\* platform may fail a wait at any time.
SentinelPending == \E k \in 1..Len(queue) : queue[k] = SentinelEntry

Scenario3Init == Init /\ size = 1

Scenario3Next ==
    \/ \E t \in Threads : ThreadInitialize(t, TRUE)
    \/ \E t \in Threads : ThreadStep(t)
    \/ \E t \in Threads : ThreadWaitFail(t)
    \/ StartCreateThread
    \/ StartReturn
    \/ submitted = {} /\ Submit(1)
    \/ submitted = {1} /\ shutdowns = 0 /\ ShutdownSetFlag
    \/ ShutdownPost
    \/ shutdowns = 1 /\ (toPost > 0 \/ SentinelPending) /\ Submit(2)

Scenario3Spec ==
    /\ Scenario3Init
    /\ [][Scenario3Next]_vars
    /\ \A t \in Threads : WF_vars(ThreadInitialize(t, TRUE)) /\ WF_vars(ThreadStep(t))
    /\ ManagerFairness

\* The pool while no Shutdown is requested and no wait fails: threads
\* initialize (or fail to), signal Ready and serve the queue, under a fair
\* scheduler.
DispatchStep(t) ==
    \/ ThreadSignalReady(t)
    \/ ThreadDequeue(t)
    \/ ThreadExecute(t)
    \/ LambdaExecute(t)

DispatchNext ==
    \/ \E t \in Threads : \E ok \in BOOLEAN : ThreadInitialize(t, ok)
    \/ \E t \in Threads : DispatchStep(t)
    \/ StartCreateThread
    \/ StartReturn
    \/ \E i \in Items : Submit(i)

DispatchSpec ==
    /\ Init
    /\ [][DispatchNext]_vars
    /\ \A t \in Threads :
          /\ WF_vars(\E ok \in BOOLEAN : ThreadInitialize(t, ok))
          /\ WF_vars(DispatchStep(t))
    /\ ManagerFairness

\* The pool together with the handle clean-up of Shutdown: every step of
\* ThreadProc, failing Initialize and failing waits included, Start, Shutdown
\* with its closing of thread handles, and one submitted item.
TeardownNext ==
    \/ \E t \in Threads : \E ok \in BOOLEAN : ThreadInitialize(t, ok)
    \/ \E t \in Threads : ThreadStep(t)
    \/ \E t \in Threads : ThreadWaitFail(t)
    \/ StartCreateThread
    \/ StartReturn
    \/ Submit(1)
    \/ ShutdownSetFlag
    \/ ShutdownPost
    \/ \E t \in Threads : ShutdownCloseHandle(t)

TeardownSpec == Init /\ [][TeardownNext]_vars

\* ------------------------------------------------------------------ helpers

\* theWorker (line 310) exists on thread t: it is constructed on entry and
\* destroyed at the end of its scope (line 350) or by the return of line 314.
WorkerAlive(t) == pc[t] \in {"init", "ready", "wait", "got", "exec", "term"}

\* Number of packets on the queue that carry item i.
InQueue(i) == Cardinality({k \in 1..Len(queue) : queue[k] = WorkEntry(i)})

\* Number of shutdown packets pending on the queue.
SentinelsInQueue == Cardinality({k \in 1..Len(queue) : queue[k] = SentinelEntry})

\* Threads that hold a dequeued shutdown packet they have not yet processed.
SentinelHolders == {t \in Threads : pc[t] = "got" /\ cur[t].ov = ATLS_POOL_SHUTDOWN}

\* Threads that currently hold item i (dequeued it and have not finished it).
Holders(i) == {t \in Threads : pc[t] \in {"got", "exec"} /\ cur[t] = WorkEntry(i)}

\* Number of occurrences of call c in the call log s.
Count(s, c) == Cardinality({k \in 1..Len(s) : s[k] = c})

InLoop(t) == pc[t] \in {"wait", "got", "exec"}
Leaving(t) == pc[t] \in {"term", "record", "signal", "return", "exited"}

\* ------------------------------------------------------------------- claims

\* C1: each enqueued work item is passed to Execute at most once and is never
\* held by two workers at once; every submitted item is either pending in the
\* queue, held by exactly one worker, or already executed exactly once, and an
\* item that was never submitted is nowhere.
C1_SingleDelivery ==
    \A i \in Items :
        /\ executed[i] <= 1
        /\ Cardinality(Holders(i)) <= 1
        /\ executed[i] = invoked[i]
              + Cardinality({t \in Holders(i) : pc[t] = "exec"})
        /\ InQueue(i) + Cardinality(Holders(i)) + invoked[i]
              = IF i \in submitted THEN 1 ELSE 0

\* Two workers are inside Execute at the same time, each with its own item.
C1_Witness ==
    \E t, u \in Threads :
        /\ t # u
        /\ pc[t] = "exec" /\ pc[u] = "exec"
        /\ cur[t] # cur[u]

\* C3: on every thread Initialize is called exactly once and first, Terminate
\* at most once and last; every Execute call is made after Initialize has
\* returned success and before Terminate; after a failed Initialize neither
\* Execute nor Terminate is ever called.
C3_LifecycleOrder ==
    /\ [](\A t \in Threads :
            /\ calls[t] \in {<<>>, <<"Initialize">>, <<"Initialize", "Terminate">>}
            /\ pc[t] \notin {"notcreated", "init"} => Len(calls[t]) >= 1
            /\ cause[t] = "initfail" => calls[t] = <<"Initialize">>)
    /\ [][\A t \in Threads :
            (pc'[t] # pc[t] /\ executed' # executed)
            => (calls[t] = <<"Initialize">> /\ cause[t] = "none")]_vars

\* A pool of two threads: one failed Initialize, the other has gone through
\* the whole life cycle (Initialize, Execute of item 1, Terminate).
C3_Witness ==
    /\ size = 2
    /\ \E t, u \in Threads :
          /\ calls[t] = <<"Initialize", "Terminate">> /\ pc[t] = "exited"
          /\ cause[u] = "initfail" /\ pc[u] = "exited"
          /\ invoked[1] = 1

\* C4: a worker that processes a shutdown packet while the flag is clear does
\* not leave its loop: it goes back to waiting; a worker leaves its loop only
\* for a failed wait or a shutdown packet that found the flag set, and it
\* executes every ordinary item it dequeues.
C4_ShutdownCancellation ==
    /\ [][\A t \in Threads :
            (pc[t] = "got" /\ cur[t].ov = ATLS_POOL_SHUTDOWN /\ ~m_bShutdown
                /\ pc'[t] # pc[t])
            => (pc'[t] = "wait" /\ exitCode'[t] = <<>> /\ cause'[t] = cause[t])]_vars
    /\ [][\A t \in Threads :
            (pc[t] = "got" /\ cur[t].ov # ATLS_POOL_SHUTDOWN /\ pc'[t] # pc[t])
            => (pc'[t] = "exec" /\ executed'[cur[t].key] = executed[cur[t].key] + 1)]_vars
    /\ [](\A t \in Threads : (readyEvt[t] > 0 /\ cause[t] = "none") => InLoop(t))

\* Shutdown(2) was called once on two threads: one thread exited on its
\* shutdown packet, the other consumed its packet as a no-op and is now
\* executing an item.
C4_Witness ==
    /\ size = 2 /\ shutdowns = 1 /\ noops = 1
    /\ \E t, u \in Threads :
          /\ pc[t] = "exited" /\ cause[t] = "shutdown"
          /\ pc[u] = "exec" /\ cause[u] = "none"

\* C5: every item that has been executed has been deallocated exactly once
\* (the lambda executor never resubmits), so no executed item is leaked.
C5_OwnershipDiscipline ==
    \A i \in Items :
        (invoked[i] >= 1 /\ InQueue(i) = 0) => heap[i] = "freed"

\* C6: a thread whose Initialize returns FALSE exits in that very step with a
\* non-zero status, without signalling readiness and without a dequeue; the
\* step leaves the queue and the shutdown flag as they were.
C6_InitFailure ==
    /\ [][\A t \in Threads :
            (cause[t] = "none" /\ cause'[t] = "initfail")
            => /\ pc'[t] = "exited"
               /\ Len(exitCode'[t]) = 1 /\ exitCode'[t][1] # 0
               /\ queue' = queue
               /\ m_bShutdown' = m_bShutdown
               /\ cur' = cur]_vars
    /\ [](\A t \in Threads :
            cause[t] = "initfail"
            => /\ pc[t] = "exited"
               /\ cur[t] = NoEntry
               /\ readyEvt[t] = 0
               /\ calls[t] = <<"Initialize">>)

\* A thread failed Initialize while work was pending on the queue.
C6_Witness ==
    \E t \in Threads :
        /\ cause[t] = "initfail" /\ exitCode[t] = <<1>>
        /\ \E i \in Items : InQueue(i) = 1

\* C7: a failed wait makes the thread leave its loop without an Execute call,
\* run Terminate exactly once and exit; the step changes nothing of any other
\* thread, of the queue or of the shutdown flag.
C7_WaitFailure ==
    /\ [][\A t \in Threads :
            (cause[t] = "none" /\ cause'[t] = "waitfail")
            => /\ pc[t] = "wait" /\ pc'[t] = "term"
               /\ calls' = calls
               /\ executed' = executed
               /\ queue' = queue
               /\ m_bShutdown' = m_bShutdown
               /\ \A u \in Threads \ {t} :
                     pc'[u] = pc[u] /\ cur'[u] = cur[u] /\ cause'[u] = cause[u]]_vars
    /\ [](\A t \in Threads :
            cause[t] = "waitfail"
            => /\ Leaving(t)
               /\ Count(calls[t], "Terminate") = (IF pc[t] = "term" THEN 0 ELSE 1)
               /\ pc[t] # "term" => calls[t][Len(calls[t])] = "Terminate")

\* One thread has exited after a failed wait while a sibling is executing an
\* item.
C7_Witness ==
    \E t, u \in Threads :
        /\ cause[t] = "waitfail" /\ pc[t] = "exited"
        /\ Count(calls[t], "Terminate") = 1
        /\ cause[u] = "none" /\ pc[u] = "exec"

\* C8: the exit status tells the causes apart: a thread that exited after a
\* failed wait and a thread that exited through a normal shutdown return
\* different statuses, and both differ from the Initialize-failure status.
C8_DistinctExitStatus ==
    \A t, u \in Threads :
        (pc[t] = "exited" /\ pc[u] = "exited" /\ cause[t] # cause[u])
        => exitCode[t] # exitCode[u]

\* C2 as stated: after Shutdown(N) on N live threads, with no later Submit,
\* all N threads eventually reach Exited and the queue is empty.
C2_AllExit ==
    (shutdowns > 0) ~> ((\A t \in 1..size : pc[t] = "exited") /\ queue = <<>>)

\* C2 (amended): after Shutdown(N) on N live threads, with no later Submit
\* and no failing wait, eventually the queue is empty, exactly one thread has
\* exited (the one that found the flag set) and the other N-1 threads, having
\* consumed their shutdown packets as no-ops, are waiting on the queue; at no
\* time has more than one thread left its loop.
C2_OneExits ==
    /\ (shutdowns > 0) ~>
          (/\ queue = <<>> /\ toPost = 0
           /\ Cardinality({t \in 1..size : pc[t] = "exited"}) = 1
           /\ \A t \in 1..size : pc[t] \in {"exited", "wait"})
    /\ [](Cardinality({t \in Threads : Leaving(t)}) <= 1)

\* Shutdown(2) on two live threads has run to quiescence: one thread exited,
\* the other consumed its shutdown packet as a no-op and waits on the empty
\* queue.
C2_Witness ==
    /\ size = 2 /\ shutdowns = 1 /\ toPost = 0 /\ queue = <<>>
    /\ \E t, u \in 1..size :
          /\ pc[t] = "exited" /\ cause[t] = "shutdown"
          /\ pc[u] = "wait" /\ cause[u] = "none"
    /\ noops = 1

\* C9: Start eventually returns whatever the Initialize outcomes are; when it
\* has returned, every thread has signalled Ready or failed Initialize, and
\* the result is success exactly when no Initialize failed; a failing
\* Initialize changes nothing of the other threads, and a thread whose
\* Initialize succeeded executes the items it dequeues.
C9_StartReturns ==
    /\ <>(mgr = "running")
    /\ [](mgr = "running" =>
            /\ \A t \in 1..size : readyEvt[t] = 1 \/ cause[t] = "initfail"
            /\ startResult <=> (\A t \in 1..size : cause[t] # "initfail"))
    /\ [][\A t, u \in Threads :
            (cause[t] = "none" /\ cause'[t] = "initfail" /\ u # t)
            => (pc'[u] = pc[u] /\ cur'[u] = cur[u] /\ cause'[u] = cause[u])]_vars
    /\ [][\A t \in Threads :
            (readyEvt[t] > 0 /\ pc[t] = "got" /\ cur[t].ov # ATLS_POOL_SHUTDOWN
                /\ pc'[t] # pc[t])
            => pc'[t] = "exec"]_vars

\* Start has reported failure because one thread failed Initialize while
\* another thread, whose Initialize succeeded, is executing an item.
C9_Witness ==
    /\ mgr = "running" /\ ~startResult
    /\ \E t, u \in 1..size :
          /\ cause[t] = "initfail"
          /\ readyEvt[u] = 1 /\ pc[u] = "exec"

\* C10: in scenario 3 the worker eventually exits; when it leaves its loop on
\* the shutdown packet item 1 has been executed exactly once, and item 2, once
\* submitted, is then either executed exactly once or still pending on the
\* queue; at no time is an item lost or executed twice.
C10_Scenario3 ==
    /\ (shutdowns > 0) ~> (pc[1] = "exited")
    /\ [](cause[1] = "shutdown" =>
            (executed[1] = 1 /\ invoked[1] = 1 /\ InQueue(1) = 0))
    /\ []((pc[1] = "exited" /\ cause[1] = "shutdown" /\ 2 \in submitted) =>
            \/ executed[2] = 1 /\ invoked[2] = 1 /\ InQueue(2) = 0
            \/ executed[2] = 0 /\ invoked[2] = 0 /\ InQueue(2) = 1)
    /\ [](\A i \in submitted :
            /\ executed[i] <= 1
            /\ InQueue(i) + Cardinality(Holders(i)) + invoked[i] = 1)

\* The worker has exited on the shutdown packet after executing item 1, and
\* item 2, submitted while the shutdown packet was pending, is still on the
\* queue.
C10_Witness ==
    /\ pc[1] = "exited" /\ cause[1] = "shutdown"
    /\ invoked[1] = 1
    /\ 2 \in submitted /\ InQueue(2) = 1

\* C11: when no Shutdown is requested and no wait fails, under a fair
\* scheduler every submitted item is eventually passed to Execute, provided
\* at least one worker has signalled Ready.
C11_DispatchLiveness ==
    \A i \in Items :
        (i \in submitted /\ \E t \in Threads : readyEvt[t] > 0) ~> (executed[i] = 1)

\* In a pool of two threads one failed Initialize; the other, Ready, has been
\* handed both submitted items, one after the other.
C11_Witness ==
    /\ size = 2 /\ shutdowns = 0
    /\ \E t, u \in Threads :
          /\ cause[t] = "initfail"
          /\ readyEvt[u] = 1 /\ cause[u] = "none"
    /\ \A i \in Items : i \in submitted /\ executed[i] = 1

\* C12: every thread that has reached Exited, whichever way (shutdown, failed
\* wait or failed Initialize), has signalled the completion event exactly
\* once, so one completion signal per exited thread is available to Shutdown.
C12_ExitSignalsCompletion ==
    \A t \in Threads : pc[t] = "exited" => doneEvt[t] = 1

\* C13: each setting of the shutdown flag is consumed by at most one thread:
\* the threads that left their loop on a shutdown packet, plus one if the flag
\* is still set, never outnumber the settings of the flag.
C13_FlagConsumedOnce ==
    Cardinality({t \in Threads : cause[t] = "shutdown"})
        + (IF m_bShutdown THEN 1 ELSE 0) <= shutdowns

\* After one setting of the flag two threads held shutdown packets at the
\* same time: one has made the exchange, found the flag set and left its
\* loop; the other still holds its packet and the flag is now clear.
C13_Witness ==
    /\ shutdowns = 1 /\ ~m_bShutdown
    /\ \E t, u \in Threads :
          /\ t # u
          /\ pc[t] = "term" /\ cause[t] = "shutdown"
          /\ pc[u] = "got" /\ cur[u] = SentinelEntry

\* C14: a thread leaves its dequeue loop only in a step that is a failed wait
\* or the processing of a shutdown packet that finds the flag set; it never
\* leaves after executing an item, on an ordinary packet, or on a shutdown
\* packet that finds the flag clear.
C14_LoopExitCauses ==
    [][\A t \in Threads :
        (InLoop(t) /\ ~InLoop(t)')
        => \/ pc[t] = "wait" /\ cur[t] = NoEntry /\ cause'[t] = "waitfail"
           \/ /\ pc[t] = "got" /\ cur[t].ov = ATLS_POOL_SHUTDOWN
              /\ m_bShutdown /\ cause'[t] = "shutdown"]_vars

\* Both ways out of the loop have been taken: one thread left on a failed
\* wait, another on a shutdown packet, after an item had been executed.
C14_Witness ==
    /\ \E t, u \in Threads :
          /\ Leaving(t) /\ cause[t] = "waitfail"
          /\ Leaving(u) /\ cause[u] = "shutdown"
    /\ \E i \in Items : invoked[i] = 1

\* C15: the step in which a wait fails leaves the shutdown flag as it was
\* (set or clear), leaves the queue as it was, calls no Execute and consumes
\* no shutdown packet: the thread holds no packet and goes on to Terminate.
C15_WaitFailureFrame ==
    [][\A t \in Threads :
        (cause[t] = "none" /\ cause'[t] = "waitfail")
        => /\ m_bShutdown' = m_bShutdown
           /\ queue' = queue
           /\ executed' = executed /\ invoked' = invoked
           /\ noops' = noops
           /\ cur'[t] = NoEntry
           /\ pc'[t] = "term"]_vars

\* A wait has failed on one thread while the flag is set and a shutdown
\* packet is pending on the queue.
C15_Witness ==
    /\ m_bShutdown /\ SentinelPending
    /\ \E t \in Threads : pc[t] = "term" /\ cause[t] = "waitfail"

\* C16: a thread that holds a dequeued packet takes exactly one of two
\* steps with it.  An ordinary packet is passed to Execute once (the count of
\* its item, and of no other item, goes up by one) and touches neither the
\* flag nor the no-op count.  A shutdown packet, whatever its key, is never
\* passed to Execute.  No Execute call happens in any other step.
C16_ExecutePerDequeue ==
    /\ [][\A t \in Threads :
            (pc[t] = "got" /\ pc'[t] # pc[t])
            => IF cur[t].ov = ATLS_POOL_SHUTDOWN
                 THEN /\ executed' = executed /\ invoked' = invoked
                      /\ pc'[t] \in {"wait", "term"}
                 ELSE /\ executed' = [executed EXCEPT ![cur[t].key] = @ + 1]
                      /\ pc'[t] = "exec"
                      /\ m_bShutdown' = m_bShutdown /\ noops' = noops]_vars
    /\ [][executed' # executed
            => \E t \in Threads :
                  /\ pc[t] = "got" /\ cur[t].ov # ATLS_POOL_SHUTDOWN
                  /\ pc'[t] = "exec"]_vars
    /\ [](\A t \in Threads : pc[t] = "exec" => executed[cur[t].key] = 1)

\* One thread is inside Execute with item 2 after item 1 was executed, while
\* another thread has consumed a shutdown packet; each item was passed to
\* Execute once.
C16_Witness ==
    /\ executed = [i \in Items |-> 1]
    /\ \E t, u \in Threads :
          /\ pc[t] = "exec" /\ cur[t] = WorkEntry(2)
          /\ cause[u] = "shutdown"

\* C17: a shutdown packet processed while the flag is clear is only consumed:
\* the thread drops it and goes back to waiting, the queue, the flag (still
\* clear), the items and the other threads are as before.  A shutdown packet
\* never returns to the queue: every packet posted is pending, held, or was
\* consumed once, as a no-op or as an exit.  So each thread that left its loop
\* on a shutdown packet used up a setting of the flag of its own.
C17_SentinelNoOp ==
    /\ [][\A t \in Threads :
            (pc[t] = "got" /\ cur[t].ov = ATLS_POOL_SHUTDOWN /\ ~m_bShutdown
                /\ pc'[t] # pc[t])
            => /\ pc'[t] = "wait" /\ cur'[t] = NoEntry
               /\ queue' = queue
               /\ ~m_bShutdown'
               /\ executed' = executed /\ invoked' = invoked /\ heap' = heap
               /\ cause' = cause /\ exitCode' = exitCode
               /\ \A u \in Threads \ {t} : pc'[u] = pc[u] /\ cur'[u] = cur[u]]_vars
    /\ [](SentinelsInQueue + Cardinality(SentinelHolders) + noops
            + Cardinality({t \in Threads : cause[t] = "shutdown"})
          = shutdowns * size - toPost)
    /\ [](Cardinality({t \in Threads : cause[t] = "shutdown"}) <= shutdowns)

\* After Shutdown(2) one thread left its loop and the other consumed its
\* shutdown packet as a no-op: no shutdown packet is left, the flag is clear
\* and the second thread waits while an item is pending on the queue.
C17_Witness ==
    /\ size = 2 /\ shutdowns = 1 /\ toPost = 0 /\ noops = 1
    /\ ~m_bShutdown /\ SentinelsInQueue = 0
    /\ \E t, u \in Threads :
          /\ pc[t] = "term" /\ cause[t] = "shutdown"
          /\ pc[u] = "wait" /\ cause[u] = "none"
    /\ \E i \in Items : InQueue(i) = 1

\* C18: a thread that has signalled completion has had Terminate return and
\* its Worker destroyed before the signal; a handle is closed only after its
\* thread's completion signal, so no handle is closed while the Worker of its
\* thread is alive.
C18_TeardownOrdering ==
    /\ \A t \in Threads :
          doneEvt[t] > 0
          => /\ calls[t] = <<"Initialize", "Terminate">>
             /\ ~WorkerAlive(t)
    /\ \A t \in closed : doneEvt[t] = 1 /\ ~WorkerAlive(t)
    /\ \A t \in Threads : pc[t] = "signal" => ~WorkerAlive(t) /\ Len(calls[t]) = 2

\* The handle of a thread was closed after its completion signal and before
\* the thread returned, while another thread's Worker is inside Execute.
C18_Witness ==
    \E t, u \in Threads :
        /\ t \in closed /\ pc[t] = "return"
        /\ calls[t] = <<"Initialize", "Terminate">>
        /\ pc[u] = "exec" /\ u \notin closed

\* C19: a thread signals readiness at most once, in a step taken after its
\* Initialize returned success and before it has dequeued anything; a thread
\* inside its loop, or one that has dequeued a packet, has signalled
\* readiness; every dequeue is made by a thread that has signalled; a thread
\* whose Initialize failed never signals readiness.
C19_ReadinessOrdering ==
    /\ [](\A t \in Threads :
            /\ readyEvt[t] <= 1
            /\ readyEvt[t] = 1 => (Len(calls[t]) >= 1 /\ cause[t] # "initfail")
            /\ cause[t] = "initfail" => readyEvt[t] = 0
            /\ (InLoop(t) \/ cur[t] # NoEntry) => readyEvt[t] = 1
            /\ pc[t] \in {"notcreated", "init", "ready"}
                  => (readyEvt[t] = 0 /\ cur[t] = NoEntry))
    /\ [][\A t \in Threads :
            readyEvt'[t] # readyEvt[t]
            => /\ pc[t] = "ready" /\ pc'[t] = "wait"
               /\ calls[t] = <<"Initialize">> /\ cause[t] = "none"
               /\ cur[t] = NoEntry /\ queue' = queue]_vars
    /\ [][Len(queue') < Len(queue)
            => \E t \in Threads :
                  /\ readyEvt[t] = 1
                  /\ pc[t] = "wait" /\ pc'[t] = "got"
                  /\ cur'[t] = Head(queue)]_vars

\* In a pool of two threads one has signalled readiness and then dequeued an
\* item; the other failed Initialize and has not signalled.
C19_Witness ==
    \E t, u \in Threads :
        /\ readyEvt[t] = 1 /\ pc[t] = "got" /\ cur[t] = WorkEntry(1)
        /\ cause[u] = "initfail" /\ readyEvt[u] = 0 /\ pc[u] = "exited"

\* C20: a set shutdown flag does not stop ordinary work: a thread that holds
\* an ordinary packet while the flag is set passes it to Execute all the same,
\* and neither the dequeue nor the Execute step changes the flag.  The flag
\* goes from set to clear only in the step of a thread that processes a
\* shutdown packet, and from clear to set only in a Shutdown call, never in a
\* step of a worker thread.
C20_PendingShutdownKeepsWork ==
    /\ [][\A t \in Threads :
            (pc[t] = "got" /\ cur[t].ov # ATLS_POOL_SHUTDOWN /\ m_bShutdown
                /\ pc'[t] # pc[t])
            => /\ pc'[t] = "exec"
               /\ executed'[cur[t].key] = executed[cur[t].key] + 1
               /\ m_bShutdown']_vars
    /\ [][\A t \in Threads :
            (pc'[t] # pc[t] /\ (pc[t] \in {"wait", "exec"} \/ pc'[t] = "exec"))
            => m_bShutdown' = m_bShutdown]_vars
    /\ [][(m_bShutdown /\ ~m_bShutdown')
            => \E t \in Threads :
                  /\ pc[t] = "got" /\ cur[t].ov = ATLS_POOL_SHUTDOWN
                  /\ pc'[t] # pc[t]]_vars
    /\ [][(~m_bShutdown /\ m_bShutdown')
            => (shutdowns' = shutdowns + 1 /\ pc' = pc /\ cur' = cur)]_vars

\* A thread is inside Execute with an item while the flag is set and a
\* shutdown packet is pending behind it.
C20_Witness ==
    /\ m_bShutdown /\ SentinelPending
    /\ \E t \in Threads : pc[t] = "exec" /\ executed[cur[t].key] = 1
    /\ \A t \in Threads : cause[t] # "shutdown"

TypeOK ==
    /\ pc \in [Threads -> {"notcreated", "init", "ready", "wait", "got", "exec",
                           "term", "record", "signal", "return", "exited"}]
    /\ m_bShutdown \in BOOLEAN
    /\ \A t \in Threads : Len(exitCode[t]) <= 1
    /\ Len(queue) <= MaxItems + MaxShutdowns * NThreads
====
